---- MODULE Spec2Model ----
(***************************************************************************)
(* Model of the iris-i18n editor extension (src/src/extension.ts): one     *)
(* session record per workspace folder, the locale index built from the    *)
(* locale tree on disk, the regular-expression scan of the active          *)
(* document and the two decoration sets it renders.                        *)
(*                                                                         *)
(* Strings (paths, file names, document text, keys, translations) are      *)
(* sequences of one-character strings, so that startsWith, extname, the    *)
(* regular expression and offsets are computed, not assumed.               *)
(***************************************************************************)
EXTENDS Integers, Sequences, FiniteSets, TLC

\* ------------------------------------------------------------------ bounds
\* how many times one folder may be initialised (sessions created per folder)
MaxGen == 1

\* how many files a locale directory of the enumerated trees holds at most
MaxFiles == 2

\* how many pieces the enumerated document texts are made of at most
MaxPieces == 4

\* ----------------------------------------------------------------- strings
StartsWith(s, p) ==
    /\ Len(p) =< Len(s)
    /\ SubSeq(s, 1, Len(p)) = p

EndsWith(s, p) ==
    /\ Len(p) =< Len(s)
    /\ SubSeq(s, Len(s) - Len(p) + 1, Len(s)) = p

RECURSIVE LastIndexOf(_, _, _)
\* greatest index =< i of character c in s, 0 when there is none
LastIndexOf(s, c, i) ==
    IF i = 0 THEN 0
    ELSE IF s[i] = c THEN i
    ELSE LastIndexOf(s, c, i - 1)

\* path.extname of a file name without directory part: from the last "." to
\* the end; "" when there is no "." or when the only "." is the first character
extname(file) ==
    LET d == LastIndexOf(file, ".", Len(file))
    IN  IF d =< 1 THEN <<>> ELSE SubSeq(file, d, Len(file))

DotJson == <<".", "j", "s", "o", "n">>

\* path.join(a, b) for an absolute a and a relative b: a leading "./" of b is
\* normalised away
pathJoin(a, b) ==
    LET rel == IF StartsWith(b, <<".", "/">>) THEN SubSeq(b, 3, Len(b)) ELSE b
    IN  IF rel = <<>> THEN a ELSE a \o <<"/">> \o rel

\* ------------------------------------------------------- the document host
\* TextDocument.positionAt: offset (0-based, clamped) to line and character
RECURSIVE CountNewlines(_, _)
CountNewlines(text, n) ==
    IF n = 0 THEN 0
    ELSE CountNewlines(text, n - 1) + (IF text[n] = "\n" THEN 1 ELSE 0)

positionAt(text, offset) ==
    LET off  == IF offset < 0 THEN 0
                ELSE IF offset > Len(text) THEN Len(text) ELSE offset
        nl   == LastIndexOf(text, "\n", off)
    IN  [line |-> CountNewlines(text, off), character |-> off - nl]

PosLeq(p, q) ==
    \/ p.line < q.line
    \/ p.line = q.line /\ p.character =< q.character

PosMax(p, q) == IF PosLeq(p, q) THEN q ELSE p
PosMin(p, q) == IF PosLeq(p, q) THEN p ELSE q

\* Range.intersection(other) is defined unless the larger start is after the
\* smaller end: ranges that only touch do intersect
Intersects(r, s) == PosLeq(PosMax(r.start, s.start), PosMin(r.end, s.end))

\* ------------------------------------------------------------------- scan
\* the regular expression /ctx\.Tr\("(.+?)"\)/g
TrPrefix == <<"c", "t", "x", ".", "T", "r", "(", "\"">>

\* j is the 1-based index of a closing quote that ends a match starting at i:
\* at least one character between the quotes and none of them a line break
ClosesAt(text, i, j) ==
    /\ j >= i + Len(TrPrefix) + 1
    /\ j + 1 =< Len(text)
    /\ text[j] = "\""
    /\ text[j + 1] = ")"
    /\ \A k \in (i + Len(TrPrefix))..(j - 1) : text[k] # "\n"


\* end of the lazy match that starts at i (0 when the expression does not
\* match at i): the first closing quote that can end it
MatchEnd(text, i) ==
    IF i + Len(TrPrefix) - 1 > Len(text) THEN 0
    ELSE IF SubSeq(text, i, i + Len(TrPrefix) - 1) # TrPrefix THEN 0
    ELSE LET ends == {j \in 1..Len(text) : ClosesAt(text, i, j)}
         IN  IF ends = {} THEN 0
             ELSE CHOOSE j \in ends : \A k \in ends : j =< k

RECURSIVE ExecFrom(_, _)
\* the successive results of regex.exec(text) from 1-based position i on:
\* index is match.index, length is match[0].length, key is match[1]
ExecFrom(text, i) ==
    IF i > Len(text) THEN <<>>
    ELSE LET j == MatchEnd(text, i)
         IN  IF j = 0 THEN ExecFrom(text, i + 1)
             ELSE <<[index  |-> i - 1,
                     length |-> j + 2 - i,
                     key    |-> SubSeq(text, i + Len(TrPrefix), j - 1)]>>
                  \o ExecFrom(text, j + 2)

Scan(text) == ExecFrom(text, 1)

MatchRangeWithQuote(text, m) ==
    [start |-> positionAt(text, m.index + 7),
     end   |-> positionAt(text, m.index + m.length - 2)]

\* the range decorated for one match: positionAt(index + 8) up to
\* positionAt(index + length - 2)
MatchRange(text, m) ==
    [start |-> positionAt(text, m.index + 8),
     end   |-> positionAt(text, m.index + m.length - 2)]

\* ------------------------------------------------------------------- plan
\* JavaScript's undefined, where a string is expected: it is no string of
\* characters, and used as a property name it names no locale
Undefined == <<"undefined">>

\* translations is the sequence of [lang, entries] in insertion order, entries
\* a function from the keys it has to their text
HasLang(translations, lang) ==
    \E n \in 1..Len(translations) : translations[n].lang = lang

EntriesOf(translations, lang) ==
    translations[CHOOSE n \in 1..Len(translations) : translations[n].lang = lang].entries

\* translations[lang]?.[key] || key : the raw key when the locale or the key is
\* missing, and also when the text is the empty string
LookupOrKeyBlank(translations, lang, key) ==
    IF /\ HasLang(translations, lang)
       /\ key \in DOMAIN EntriesOf(translations, lang)
    THEN EntriesOf(translations, lang)[key]
    ELSE <<>>

LookupOrKey(translations, lang, key) ==
    IF /\ HasLang(translations, lang)
       /\ key \in DOMAIN EntriesOf(translations, lang)
       /\ EntriesOf(translations, lang)[key] # <<>>
    THEN EntriesOf(translations, lang)[key]
    ELSE key

HoverLinesFirstLocale(translations, key) ==
    [n \in 1..(IF translations = <<>> THEN 0 ELSE 1) |->
        translations[n].lang \o <<":", " ">>
            \o LookupOrKey(translations, translations[n].lang, key)]

\* `${displayLanguage}: ${translatedText}` for every locale of the index
HoverLines(translations, key) ==
    [n \in 1..Len(translations) |->
        translations[n].lang \o <<":", " ">>
            \o LookupOrKey(translations, translations[n].lang, key)]

\* the selection of an editor is kept as two offsets into its text
SelectionRange(text, sel) ==
    [start |-> positionAt(text, sel[1]), end |-> positionAt(text, sel[2])]

\* the branch taken for one match: TRUE for the hover decoration
TakesHoverSwapped(text, sel, m) ==
    ~Intersects(SelectionRange(text, sel), MatchRange(text, m))

TakesHover(text, sel, m) ==
    Intersects(SelectionRange(text, sel), MatchRange(text, m))

InlineOf(text, translations, displayLanguage, m) ==
    [range       |-> MatchRange(text, m),
     contentText |-> LookupOrKey(translations, displayLanguage, m.key)]

HoverOf(text, translations, m) ==
    [range        |-> MatchRange(text, m),
     hoverMessage |-> HoverLines(translations, m.key)]

RECURSIVE SelectMatches(_, _, _, _)
\* the matches of ms, in order, whose branch is the hover one (want = TRUE)
\* or the inline one (want = FALSE)
SelectMatches(ms, text, sel, want) ==
    IF ms = <<>> THEN <<>>
    ELSE (IF TakesHover(text, sel, Head(ms)) = want THEN <<Head(ms)>> ELSE <<>>)
         \o SelectMatches(Tail(ms), text, sel, want)

\* the two arrays built by the loop of updateDecorationsForWorkspace
DecorationsArray(text, sel, translations) ==
    LET ms == SelectMatches(Scan(text), text, sel, TRUE)
    IN  [n \in 1..Len(ms) |-> HoverOf(text, translations, ms[n])]

InplaceAnnotations(text, sel, translations, displayLanguage) ==
    LET ms == SelectMatches(Scan(text), text, sel, FALSE)
    IN  [n \in 1..Len(ms) |-> InlineOf(text, translations, displayLanguage, ms[n])]


\* ------------------------------------------------------------------ build
\* A directory on disk is [exists, entries]; an entry of the locale root is
\* [name, kind, files] with kind "dir", "file" or "dangling" (a link whose
\* target is gone: statSync throws); a file of a locale directory is
\* [name, kind, ok, data]: ok says whether JSON.parse accepts its content and
\* data is the parsed object
NoDir == [exists |-> FALSE, entries |-> <<>>]

ObjectAssignKeep(target, source) ==
    [k \in (DOMAIN target) \cup (DOMAIN source) |->
        IF k \in DOMAIN target THEN target[k] ELSE source[k]]

\* Object.assign(target, source)
ObjectAssign(target, source) ==
    [k \in (DOMAIN target) \cup (DOMAIN source) |->
        IF k \in DOMAIN source THEN source[k] ELSE target[k]]

EmptyObject == [k \in {} |-> <<>>]

\* readFileSync + JSON.parse succeed for a regular file with well-formed content
Parses(file) == file.kind = "file" /\ file.ok

RECURSIVE MergeFilesAbort(_, _)
MergeFilesAbort(files, acc) ==
    IF files = <<>> THEN acc
    ELSE LET f == Head(files)
         IN  IF extname(f.name) = DotJson /\ ~Parses(f) THEN acc
             ELSE MergeFilesAbort(Tail(files),
                      IF extname(f.name) = DotJson
                      THEN ObjectAssign(acc, f.data) ELSE acc)

RECURSIVE MergeFiles(_, _)
\* the inner forEach: every .json file that parses is merged over the
\* mapping so far, in listing order; a file that fails is skipped
MergeFiles(files, acc) ==
    IF files = <<>> THEN acc
    ELSE LET f == Head(files)
         IN  MergeFiles(Tail(files),
                 IF extname(f.name) = DotJson /\ Parses(f)
                 THEN ObjectAssign(acc, f.data)
                 ELSE acc)

RECURSIVE BuildFrom(_, _)
\* the outer forEach over the entries of the locale root, from the index built
\* so far; threw when statSync fails, the index then being the part built
BuildFrom(entries, acc) ==
    IF entries = <<>> THEN [translations |-> acc, threw |-> FALSE]
    ELSE LET e == Head(entries)
         IN  IF e.kind = "dangling" THEN [translations |-> acc, threw |-> TRUE]
             ELSE IF e.kind = "dir"
             THEN BuildFrom(Tail(entries),
                      Append(acc, [lang    |-> e.name,
                                   entries |-> MergeFiles(e.files, EmptyObject)]))
             ELSE BuildFrom(Tail(entries), acc)

\* state.translations = {} followed by the walk of the tree; readdirSync of a
\* missing directory throws after the index was emptied
Build(dir) ==
    IF ~dir.exists THEN [translations |-> <<>>, threw |-> TRUE]
    ELSE BuildFrom(dir.entries, <<>>)


\* ------------------------------------------------------------ environment
\* the workspace folders, by uri.toString(), and their uri.fsPath
Roots == {"A", "B"}

RootPath(r) == IF r = "A" THEN <<"/", "p">> ELSE <<"/", "p", "2">>

\* the visible text editors, in the order of window.visibleTextEditors; each
\* shows a document of its own
VisibleTextEditors == <<"e1", "e4", "e2", "e3">>

Editors == {VisibleTextEditors[n] : n \in 1..Len(VisibleTextEditors)}

EditorScheme(e) == IF e = "e3" THEN "git" ELSE "file"

EditorPath(e) ==
    IF e = "e2" THEN <<"/", "p", "2", "/", "y">>
    ELSE IF e = "e4" THEN <<"/", "p", "/", "w">>
    ELSE <<"/", "p", "/", "x">>

\* the document of e is a file located in folder r or below it
LocatedUnder(e, r) ==
    /\ EditorScheme(e) = "file"
    /\ StartsWith(EditorPath(e), RootPath(r) \o <<"/">>)

\* the folder an editor event is attributed to ("none" when there is none)
RootOfEditor(e) ==
    IF \E r \in Roots : LocatedUnder(e, r)
    THEN CHOOSE r \in Roots : LocatedUnder(e, r)
    ELSE "none"

NoEditor == "undefined"

\* one closure per call of initializeWorkspace that found the descriptor: the
\* state object it created, its handlers, its watchers and its throttle
Closures == Roots \X (1..MaxGen)

\* the test of the visibleTextEditors loop and of the focus handler
Belongs(e, r) ==
    /\ e # NoEditor
    /\ EditorScheme(e) = "file"
    /\ StartsWith(EditorPath(e), RootPath(r))

\* the state object of initializeWorkspace before anything is read
NewState ==
    [activeEditor          |-> NoEditor,
     decorationType        |-> FALSE,
     inplaceAnnotationType |-> FALSE,
     translations          |-> <<>>,
     displayLanguage       |-> <<>>,
     localePath            |-> <<>>]

NoDecorations == [e \in Editors |-> <<>>]

\* the descriptor file of a folder: absent, or a content that JSON.parse
\* rejects (ok = FALSE) or turns into an object with these two properties
NoFile == [exists |-> FALSE, ok |-> FALSE,
           locale_path |-> Undefined, display_language |-> Undefined]

Descriptor(lp, dl) ==
    [exists |-> TRUE, ok |-> TRUE, locale_path |-> lp, display_language |-> dl]

Malformed == [exists |-> TRUE, ok |-> FALSE,
              locale_path |-> Undefined, display_language |-> Undefined]


\* ------------------------------------------------------------------ state
VARIABLES
    folders,          \* workspace.workspaceFolders: the open set
    descriptor,       \* disk: the .iris-i18n.json of every folder
    localeDir,        \* disk: the directories a locale_path can name
    text,             \* the text of every editor's document
    selection,        \* the selection of every editor, as two offsets
    workspaceStates,  \* the map: folder -> generation of its state object, 0 = no entry
    gen,              \* how many state objects were created for each folder
    objs,             \* the state objects, live or orphaned, by closure
    rendered,         \* what each editor shows for the two decoration types of a closure
    subs,             \* the closures whose three editor handlers are subscribed, in order
    localeWatch,      \* the directory each closure's locale watcher observes (<<>> = none)
    configWatch,      \* the closures with a descriptor watcher
    throttle,         \* the throttled updateDecorationsForWorkspace of every closure
    listening,        \* activate() got as far as subscribing to folder changes
    last,             \* the kind of the last event delivered
    uncaught          \* an exception left a handler of that event

vars == <<folders, descriptor, localeDir, text, selection, workspaceStates, gen,
          objs, rendered, subs, localeWatch, configWatch, throttle, listening, last, uncaught>>

\* The handlers are written over a record m of everything they read or
\* write: threw tells that an exception is propagating, uncaught that one left
\* a handler, planned collects the <<folder, generation, editor>> whose
\* decorations were set
Machine ==
    [workspaceStates |-> workspaceStates, gen |-> gen, objs |-> objs,
     rendered |-> rendered, subs |-> subs, localeWatch |-> localeWatch,
     configWatch |-> configWatch, throttle |-> throttle,
     descriptor |-> descriptor, localeDir |-> localeDir,
     text |-> text, selection |-> selection,
     threw |-> FALSE, uncaught |-> FALSE, planned |-> {}]

Throw(m) == [m EXCEPT !.threw = TRUE]
Catch(m) == [m EXCEPT !.threw = FALSE]

\* workspaceStates.get(uri)! : the closure of the live state object
Live(m, r) == <<r, m.workspaceStates[r]>>

UpdateDecorationsAdding(m, r) ==
    IF m.workspaceStates[r] = 0 THEN Throw(m)
    ELSE LET c     == Live(m, r)
             state == m.objs[c]
             e     == state.activeEditor
         IN  IF e = NoEditor \/ ~state.decorationType \/ ~state.inplaceAnnotationType
             THEN m
             ELSE [m EXCEPT
                     !.rendered[c].hover[e] = @ \o
                         DecorationsArray(m.text[e], m.selection[e], state.translations),
                     !.rendered[c].inline[e] = @ \o
                         InplaceAnnotations(m.text[e], m.selection[e],
                             state.translations, state.displayLanguage),
                     !.planned = @ \cup {<<r, c[2], e>>}]

\* updateDecorationsForWorkspace: without a map entry the first property read
\* throws; without an active editor or decoration types it does nothing; else
\* both decoration sets of the active editor are replaced
UpdateDecorations(m, r) ==
    IF m.workspaceStates[r] = 0 THEN Throw(m)
    ELSE LET c     == Live(m, r)
             state == m.objs[c]
             e     == state.activeEditor
         IN  IF e = NoEditor \/ ~state.decorationType \/ ~state.inplaceAnnotationType
             THEN m
             ELSE [m EXCEPT
                     !.rendered[c].hover[e] =
                         DecorationsArray(m.text[e], m.selection[e], state.translations),
                     !.rendered[c].inline[e] =
                         InplaceAnnotations(m.text[e], m.selection[e],
                             state.translations, state.displayLanguage),
                     !.planned = @ \cup {<<r, c[2], e>>}]

\* readdirSync(state.localePath) of the disk
DirAt(m, path) == IF path \in DOMAIN m.localeDir THEN m.localeDir[path] ELSE NoDir

\* updateTranslationsForWorkspace: the index is emptied, rebuilt from the
\* tree and the decorations are updated; an exception of the walk leaves the
\* part built and skips the update
UpdateTranslations(m, r) ==
    IF m.workspaceStates[r] = 0 THEN Throw(m)
    ELSE LET c == Live(m, r)
             b == Build(DirAt(m, m.objs[c].localePath))
             built == [m EXCEPT !.objs[c].translations = b.translations]
         IN  IF m.objs[c].localePath = <<>> THEN m
             ELSE IF b.threw THEN Throw(built)
             ELSE UpdateDecorations(built, r)

ReadConfigPartial(m, r) ==
    LET config == m.descriptor[r]
    IN  IF ~config.exists \/ ~config.ok THEN
            IF m.workspaceStates[r] = 0 THEN m
            ELSE [m EXCEPT !.objs[Live(m, r)].displayLanguage = Undefined]
        ELSE IF config.locale_path = Undefined THEN m
        ELSE IF m.workspaceStates[r] = 0 THEN m
        ELSE LET c == Live(m, r)
             IN  Catch(UpdateTranslations(
                     [m EXCEPT
                        !.objs[c].localePath = pathJoin(RootPath(r), config.locale_path),
                        !.objs[c].displayLanguage = config.display_language], r))

\* readConfigFileForWorkspace: everything happens inside try/catch.  A missing
\* or malformed file throws in readFileSync/JSON.parse, a missing locale_path
\* throws in path.join, a missing map entry throws at the first assignment:
\* all before anything is stored.  An exception of the rebuild is caught too
ReadConfig(m, r) ==
    LET config == m.descriptor[r]
    IN  IF ~config.exists \/ ~config.ok THEN m
        ELSE IF config.locale_path = Undefined THEN m
        ELSE IF m.workspaceStates[r] = 0 THEN m
        ELSE LET c == Live(m, r)
             IN  Catch(UpdateTranslations(
                     [m EXCEPT
                        !.objs[c].localePath = pathJoin(RootPath(r), config.locale_path),
                        !.objs[c].displayLanguage = config.display_language], r))


\* createDecorationTypeForWorkspace
CreateDecorationType(m, r) ==
    [m EXCEPT !.objs[Live(m, r)].decorationType = TRUE,
              !.objs[Live(m, r)].inplaceAnnotationType = TRUE]

\* watchLocaleFilesForWorkspace: fs.watch throws when the directory is missing
WatchLocaleFiles(m, r) ==
    LET c == Live(m, r)
    IN  IF m.objs[c].localePath = <<>> THEN m
        ELSE IF ~DirAt(m, m.objs[c].localePath).exists THEN Throw(m)
        ELSE [m EXCEPT !.localeWatch[c] = m.objs[c].localePath]

\* watchConfigFileForWorkspace
WatchConfigFile(m, r) ==
    IF ~m.descriptor[r].exists THEN Throw(m)
    ELSE [m EXCEPT !.configWatch = @ \cup {Live(m, r)}]

RECURSIVE VisitEditors(_, _, _)
\* the visibleTextEditors loop, from the n-th editor on
VisitEditors(m, r, n) ==
    IF n > Len(VisibleTextEditors) THEN m
    ELSE LET e == VisibleTextEditors[n]
         IN  IF Belongs(e, r)
             THEN VisitEditors(
                      UpdateDecorations([m EXCEPT !.objs[Live(m, r)].activeEditor = e], r),
                      r, n + 1)
             ELSE VisitEditors(m, r, n + 1)

\* throttle(func, 100): the wait of the throttle, in milliseconds
Wait == 100

Min(a, b) == IF a < b THEN a ELSE b

\* The state of one throttled function (lodash debounce with leading, trailing
\* and maxWait = wait).  Times are kept as ages: sinceCall is now minus
\* lastCallTime and sinceInvoke now minus lastInvokeTime, both cut at Wait
\* since they are only compared with it (a lastCallTime still undefined
\* counts as Wait); timerId is the time left on the timer, lastArgs tells
\* that a call waits for the trailing edge
NoTimer == 0 - 1

NewThrottle ==
    [timerId |-> NoTimer, sinceCall |-> Wait, sinceInvoke |-> Wait, lastArgs |-> FALSE]

\* initializeWorkspace: an exception of fs.watch leaves the function, so that
\* the visible editors are not visited and no handler is subscribed
InitializeWorkspace(m, r) ==
    IF ~m.descriptor[r].exists THEN m
    ELSE LET c  == <<r, m.gen[r] + 1>>
             m1 == [m EXCEPT !.gen[r] = c[2],
                             !.workspaceStates[r] = c[2],
                             !.objs[c] = NewState]
             m2 == UpdateDecorations(CreateDecorationType(ReadConfig(m1, r), r), r)
             m3 == WatchLocaleFiles(m2, r)
             m4 == WatchConfigFile(m3, r)
             m5 == VisitEditors(m4, r, 1)
         IN  IF m3.threw THEN m3
             ELSE IF m4.threw THEN m4
             ELSE [m5 EXCEPT !.subs = Append(@, c)]

\* the removed part of the onDidChangeWorkspaceFolders handler: only
\* decorationType is disposed, which removes its decorations from every editor
RemoveWorkspace(m, r) ==
    IF m.workspaceStates[r] = 0 THEN m
    ELSE LET c == Live(m, r)
         IN  [m EXCEPT !.rendered[c].hover =
                           IF m.objs[c].decorationType THEN NoDecorations ELSE @,
                       !.workspaceStates[r] = 0]

\* ---------------------------------------------------------------- throttle
\* d milliseconds pass
Elapse(th, d) ==
    [th EXCEPT !.timerId     = IF @ = NoTimer THEN NoTimer ELSE @ - d,
               !.sinceCall   = Min(@ + d, Wait),
               !.sinceInvoke = Min(@ + d, Wait)]

\* shouldInvoke(time): the first call, or wait since the last call, or
\* maxWait since the last invocation
ShouldInvoke(th) == th.sinceCall >= Wait \/ th.sinceInvoke >= Wait

\* remainingWait(time)
RemainingWait(th) == Min(Wait - th.sinceCall, Wait - th.sinceInvoke)

\* invokeFunc(time): lastArgs and lastInvokeTime are set before func runs, so
\* that they stay when it throws
InvokeFunc(m, c) ==
    UpdateDecorations(
        [m EXCEPT !.throttle[c].lastArgs = FALSE, !.throttle[c].sinceInvoke = 0], c[1])

\* debounced(): a call of throttledUpdateDecorations.  It invokes on the
\* leading edge when no timer runs, or at once when maxWait has passed while
\* one runs; otherwise the call waits for the timer
ThrottledCall(m, c) ==
    LET isInvoking == ShouldInvoke(m.throttle[c])
        called == [m EXCEPT !.throttle[c].lastArgs = TRUE, !.throttle[c].sinceCall = 0]
        timed  == [called EXCEPT !.throttle[c].timerId = Wait]
    IN  IF isInvoking THEN InvokeFunc(timed, c)
        ELSE IF m.throttle[c].timerId = NoTimer THEN timed
        ELSE called

TimerExpiredWithoutTrailing(m, c) ==
    IF ShouldInvoke(m.throttle[c])
    THEN [m EXCEPT !.throttle[c].timerId = NoTimer, !.throttle[c].lastArgs = FALSE]
    ELSE [m EXCEPT !.throttle[c].timerId = RemainingWait(m.throttle[c])]

\* timerExpired(): the trailing edge invokes when a call waits; a timer that
\* fires too early is started again
TimerExpired(m, c) ==
    IF ShouldInvoke(m.throttle[c])
    THEN LET off == [m EXCEPT !.throttle[c].timerId = NoTimer]
         IN  IF m.throttle[c].lastArgs THEN InvokeFunc(off, c) ELSE off
    ELSE [m EXCEPT !.throttle[c].timerId = RemainingWait(m.throttle[c])]

\* ---------------------------------------------------------------- handlers
\* the three handlers of closure c use the state object of the closure, and
\* updateDecorationsForWorkspace the one of the map
OnDidChangeActiveTextEditor(m, c, e) ==
    IF Belongs(e, c[1])
    THEN UpdateDecorations([m EXCEPT !.objs[c].activeEditor = e], c[1])
    ELSE m

OnDidChangeTextDocument(m, c, e) ==
    IF m.objs[c].activeEditor # NoEditor /\ e = m.objs[c].activeEditor
    THEN UpdateDecorations(m, c[1])
    ELSE m

OnDidChangeTextEditorSelection(m, c, e) ==
    IF m.objs[c].activeEditor # NoEditor /\ e = m.objs[c].activeEditor
    THEN ThrottledCall(m, c)
    ELSE m

\* the event emitter reports the exception of a listener and goes on
Settle(m) == [m EXCEPT !.uncaught = @ \/ m.threw, !.threw = FALSE]

RECURSIVE Dispatch(_, _, _, _)
\* the event kind about editor e is delivered to the subscribed closures from
\* the n-th on, in subscription order
Dispatch(m, kind, e, n) ==
    IF n > Len(m.subs) THEN m
    ELSE LET c == m.subs[n]
             h == IF kind = "focus" THEN OnDidChangeActiveTextEditor(m, c, e)
                  ELSE IF kind = "text" THEN OnDidChangeTextDocument(m, c, e)
                  ELSE OnDidChangeTextEditorSelection(m, c, e)
         IN  Dispatch(Settle(h), kind, e, n + 1)

\* the callbacks of fs.watch: path.extname(null) throws
OnLocaleChange(m, c, eventType, filename) ==
    IF eventType # "change" THEN m
    ELSE IF filename = Undefined THEN Throw(m)
    ELSE IF extname(filename) = DotJson THEN UpdateTranslations(m, c[1])
    ELSE m

OnConfigChange(m, c, eventType, filename) ==
    IF eventType # "change" THEN m
    ELSE IF filename = Undefined THEN Throw(m)
    ELSE IF extname(filename) = DotJson THEN ReadConfig(m, c[1])
    ELSE m


\* ------------------------------------------------- the inputs of the model
Call(key) == TrPrefix \o key \o <<"\"", ")">>

JsonFile(name, data) == [name |-> name \o DotJson, kind |-> "file", ok |-> TRUE, data |-> data]
BadJsonFile(name) == [name |-> name \o DotJson, kind |-> "file", ok |-> FALSE, data |-> EmptyObject]
OtherFile(name, data) == [name |-> name, kind |-> "file", ok |-> TRUE, data |-> data]
LocaleFolder(name, files) == [name |-> name, kind |-> "dir", files |-> files]
PlainEntry(name) == [name |-> name, kind |-> "file", files |-> <<>>]
Dir(entries) == [exists |-> TRUE, entries |-> entries]

K(key, value) == key :> value

\* the locale tree of the README: two locales with one document each
TreeOne ==
    Dir(<<LocaleFolder(<<"e">>, <<JsonFile(<<"c">>, K(<<"a">>, <<"H">>))>>),
          LocaleFolder(<<"f">>, <<JsonFile(<<"c">>, K(<<"a">>, <<"S">>))>>)>>)

\* a document that does not parse before a well-formed one, a plain file in
\* the root, and the second locale after them
TreeTwo ==
    Dir(<<LocaleFolder(<<"e">>, <<BadJsonFile(<<"m">>),
                                  JsonFile(<<"c">>, K(<<"a">>, <<"G">>))>>),
          PlainEntry(<<"r">> \o DotJson),
          LocaleFolder(<<"f">>, <<JsonFile(<<"c">>, K(<<"a">>, <<"T">>))>>)>>)

\* the directory named by locale_path "l" (or "./l") in a folder
LocalePath(r) == pathJoin(RootPath(r), <<"l">>)

\* the directory named by locale_path "m" in folder A
OtherLocalePath == pathJoin(RootPath("A"), <<"m">>)

LocalePaths == {LocalePath(r) : r \in Roots} \cup {OtherLocalePath}

\* what fs.watch reports
EventTypes == {"change", "rename"}
LocaleFileNames == {<<"c">> \o DotJson, <<"n", ".", "t">>, Undefined}
ConfigFileNames == {<<".", "i">> \o DotJson, Undefined}

\* ------------------------------------------------------------- activation
\* the extension host before activate(), on a disk d, l and editors t, s
Blank(d, l, t, s) ==
    [workspaceStates |-> [r \in Roots |-> 0],
     gen             |-> [r \in Roots |-> 0],
     objs            |-> [c \in Closures |-> NewState],
     rendered        |-> [c \in Closures |->
                            [hover |-> NoDecorations, inline |-> NoDecorations]],
     subs            |-> <<>>,
     localeWatch     |-> [c \in Closures |-> <<>>],
     configWatch     |-> {},
     throttle        |-> [c \in Closures |-> NewThrottle],
     descriptor |-> d, localeDir |-> l, text |-> t, selection |-> s,
     threw |-> FALSE, uncaught |-> FALSE, planned |-> {}]

RECURSIVE InitializeAll(_, _)
\* forEach(initializeWorkspace): an exception ends the loop
InitializeAll(m, rs) ==
    IF rs = <<>> \/ m.threw THEN m
    ELSE InitializeAll(InitializeWorkspace(m, Head(rs)), Tail(rs))

\* the handlers' result becomes the next state
Commit(result, kind) ==
    \E m \in {result} :
    /\ last' = kind
    /\ workspaceStates' = m.workspaceStates
    /\ gen' = m.gen
    /\ objs' = m.objs
    /\ rendered' = m.rendered
    /\ subs' = m.subs
    /\ localeWatch' = m.localeWatch
    /\ configWatch' = m.configWatch
    /\ throttle' = m.throttle
    /\ uncaught' = m.uncaught

\* the state after activate() with the workspace folders rs: the folder
\* handler is subscribed only when the loop over the folders did not throw
Activated(rs, d, l, t, s) ==
    LET m == InitializeAll(Blank(d, l, t, s), rs)
    IN  /\ folders = {rs[n] : n \in 1..Len(rs)}
        /\ descriptor = d
        /\ localeDir = l
        /\ text = t
        /\ selection = s
        /\ workspaceStates = m.workspaceStates
        /\ gen = m.gen
        /\ objs = m.objs
        /\ rendered = m.rendered
        /\ subs = m.subs
        /\ localeWatch = m.localeWatch
        /\ configWatch = m.configWatch
        /\ throttle = m.throttle
        /\ listening = ~m.threw
        /\ last = "activate"
        /\ uncaught = m.threw

\* ----------------------------------------------------------------- actions
\* folder A is initialised up to MaxGen times, folder B once
MaxGenOf(r) == IF r = "A" THEN MaxGen ELSE 1

\* onDidChangeWorkspaceFolders with one added folder
AddFolder(r) ==
    /\ listening
    /\ r \notin folders
    /\ gen[r] < MaxGenOf(r)
    /\ folders' = folders \cup {r}
    /\ Commit(Settle(InitializeWorkspace(Machine, r)), "add")
    /\ UNCHANGED <<descriptor, localeDir, text, selection, listening>>

\* onDidChangeWorkspaceFolders with one removed folder
RemoveFolder(r) ==
    /\ listening
    /\ r \in folders
    /\ folders' = folders \ {r}
    /\ Commit(Settle(RemoveWorkspace(Machine, r)), "remove")
    /\ UNCHANGED <<descriptor, localeDir, text, selection, listening>>

\* the active editor becomes e (or none)
FocusEditor(e) ==
    /\ Commit(Dispatch(Machine, "focus", e, 1), "focus")
    /\ UNCHANGED <<folders, descriptor, localeDir, text, selection, listening>>

\* the document of e is edited and its text is t; the selection stays inside
ChangeText(e, t) ==
    /\ text' = [text EXCEPT ![e] = t]
    /\ selection' = [selection EXCEPT ![e] = <<Min(@[1], Len(t)), Min(@[2], Len(t))>>]
    /\ Commit(Dispatch([Machine EXCEPT !.text = text', !.selection = selection'],
                       "text", e, 1), "text")
    /\ UNCHANGED <<folders, descriptor, localeDir, listening>>

\* a selection event of e, its selection being sel
ChangeSelection(e, sel) ==
    /\ sel[2] =< Len(text[e])
    /\ selection' = [selection EXCEPT ![e] = sel]
    /\ Commit(Dispatch([Machine EXCEPT !.selection = selection'], "selection", e, 1),
              "selection")
    /\ UNCHANGED <<folders, descriptor, localeDir, text, listening>>

\* every throttle after d milliseconds
Later(d) == [c \in Closures |-> Elapse(throttle[c], d)]

\* no timer fires within the next d milliseconds
NoneDueBefore(d) ==
    \A c \in Closures : throttle[c].timerId # NoTimer => throttle[c].timerId >= d

\* time passes until the timer of the throttle of closure c fires
ThrottleTimer(c) ==
    /\ throttle[c].timerId # NoTimer
    /\ NoneDueBefore(throttle[c].timerId)
    /\ Commit(Settle(TimerExpired([Machine EXCEPT !.throttle = Later(throttle[c].timerId)],
                                  c)), "timer")
    /\ UNCHANGED <<folders, descriptor, localeDir, text, selection, listening>>

\* d milliseconds pass without an event
Tick(d) ==
    /\ NoneDueBefore(d)
    /\ throttle' = Later(d)
    /\ throttle' # throttle
    /\ last' = "tick"
    /\ uncaught' = FALSE
    /\ UNCHANGED <<folders, descriptor, localeDir, text, selection, workspaceStates, gen,
                   objs, rendered, subs, localeWatch, configWatch, listening>>

\* the locale watcher of closure c reports an event of its directory
LocaleWatchEvent(c, eventType, filename) ==
    /\ localeWatch[c] # <<>>
    /\ DirAt(Machine, localeWatch[c]).exists
    /\ Commit(Settle(OnLocaleChange(Machine, c, eventType, filename)), "locale")
    /\ UNCHANGED <<folders, descriptor, localeDir, text, selection, listening>>

\* the descriptor watcher of closure c reports an event of the file
ConfigWatchEvent(c, eventType, filename) ==
    /\ c \in configWatch
    /\ descriptor[c[1]].exists
    /\ Commit(Settle(OnConfigChange(Machine, c, eventType, filename)), "config")
    /\ UNCHANGED <<folders, descriptor, localeDir, text, selection, listening>>

\* somebody writes or deletes the descriptor of a folder
WriteDescriptor(r, d) ==
    /\ d # descriptor[r]
    /\ descriptor' = [descriptor EXCEPT ![r] = d]
    /\ UNCHANGED <<folders, localeDir, text, selection, workspaceStates, gen, objs,
                   rendered, subs, localeWatch, configWatch, throttle, listening>>
    /\ last' = "disk"
    /\ uncaught' = FALSE

\* somebody changes the locale tree at a path
WriteLocaleTree(path, tree) ==
    /\ tree # localeDir[path]
    /\ localeDir' = [localeDir EXCEPT ![path] = tree]
    /\ UNCHANGED <<folders, descriptor, text, selection, workspaceStates, gen, objs,
                   rendered, subs, localeWatch, configWatch, throttle, listening>>
    /\ last' = "disk"
    /\ uncaught' = FALSE

RECURSIVE NotifyConfigWatchers(_, _, _, _)
\* the callbacks of the descriptor watchers of folder r, from generation g on
NotifyConfigWatchers(m, r, eventType, g) ==
    IF g > MaxGen THEN m
    ELSE NotifyConfigWatchers(
             IF <<r, g>> \in m.configWatch
             THEN Settle(OnConfigChange(m, <<r, g>>, eventType, <<".", "i">> \o DotJson))
             ELSE m,
             r, eventType, g + 1)

\* the file system reports the descriptor of folder r, which is on disk, to
\* every watcher of that file: fs.watch is the only subscription the
\* extension has on it
ReportDescriptor(r, eventType) ==
    /\ descriptor[r].exists
    /\ Commit(NotifyConfigWatchers(Machine, r, eventType, 1), "reported")
    /\ UNCHANGED <<folders, descriptor, localeDir, text, selection, listening>>

\* ------------------------------------------- Spec: the life of two folders
\* Both folders have a well-formed descriptor and the README's tree.  Every
\* document has two call sites, the second with a key of no locale, and the
\* first key selected: the events of the editors leave text and selection as
\* they are
AllFine == [r \in Roots |-> Descriptor(<<"l">>, IF r = "A" THEN <<"f">> ELSE <<"e">>)]
AllTreeOne == [p \in LocalePaths |-> TreeOne]

TextsOf(e) == {Call(<<"a">>) \o Call(<<"z">>)}
SelectionsOf(e) == {<<8, 9>>}

Init ==
    Activated(<<>>, AllFine, AllTreeOne,
              [e \in Editors |-> Call(<<"a">>) \o Call(<<"z">>)],
              [e \in Editors |-> <<8, 9>>])

Next ==
    \/ \E r \in Roots : AddFolder(r)
    \/ \E r \in Roots : RemoveFolder(r)
    \/ \E e \in Editors : FocusEditor(e)
    \/ \E e \in Editors : \E t \in TextsOf(e) : ChangeText(e, t)
    \/ \E e \in Editors : \E sel \in SelectionsOf(e) : ChangeSelection(e, sel)
    \/ \E c \in Closures : ThrottleTimer(c)
    \/ \E c \in Closures : \E et \in EventTypes : \E fn \in LocaleFileNames :
           LocaleWatchEvent(c, et, fn)
    \/ \E c \in Closures : \E et \in EventTypes : \E fn \in ConfigFileNames :
           ConfigWatchEvent(c, et, fn)

Spec == Init /\ [][Next]_vars


\* the session of folder A in the specifications with that folder alone
Session == <<"A", 1>>

\* ------------------------------- SpecPlan: one folder, the plan's inputs
\* Folder A is open when the extension is activated.  The descriptor, the
\* locale tree, the text and the selection of e1 are drawn from the sets
\* below; afterwards e1 is focused, edited and its selection moved
PlanDescriptors ==
    {Descriptor(<<"l">>, dl) : dl \in {<<"f">>, <<"e">>, <<"g">>, Undefined}}

\* key a in both locales, key b empty in locale f, key z in none
PlanTrees ==
    {Dir(<<LocaleFolder(<<"e">>, <<JsonFile(<<"c">>,
                  K(<<"a">>, <<"H">>) @@ K(<<"b">>, <<"J">>))>>),
           LocaleFolder(<<"f">>, <<JsonFile(<<"c">>,
                  K(<<"a">>, <<"S">>) @@ K(<<"b">>, <<>>))>>)>>),
     Dir(<<LocaleFolder(<<"e">>, <<JsonFile(<<"c">>, K(<<"a">>, <<"H">>))>>)>>),
     Dir(<<>>)}

PlanTexts ==
    {<<"x">>,
     Call(<<"a">>) \o Call(<<"b">>),
     Call(<<"z">>) \o <<"\n">> \o Call(<<"z">>)}

\* the caret before everything, the first key selected, a selection from the
\* end of the first key to the start of the second, the caret on the second
PlanSelections == {<<0, 0>>, <<8, 9>>, <<9, 19>>, <<20, 20>>}

InitPlan ==
    \E d \in PlanDescriptors : \E tree \in PlanTrees :
    \E t \in PlanTexts : \E sel \in PlanSelections :
        /\ sel[2] =< Len(t)
        /\ Activated(<<"A">>,
                     [r \in Roots |-> IF r = "A" THEN d ELSE NoFile],
                     [p \in LocalePaths |-> IF p = LocalePath("A") THEN tree ELSE NoDir],
                     [e \in Editors |-> IF e = "e1" THEN t ELSE <<"x">>],
                     [e \in Editors |-> IF e = "e1" THEN sel ELSE <<0, 0>>])

NextPlan ==
    \/ FocusEditor("e1")
    \/ \E t \in PlanTexts : ChangeText("e1", t)
    \/ \E sel \in PlanSelections : ChangeSelection("e1", sel)
    \/ ThrottleTimer(Session)

SpecPlan == InitPlan /\ [][NextPlan]_vars

\* ---------------------------- SpecBuild: one folder, the trees of the index
\* The files a locale directory is made of: two documents that share key a, a
\* document that does not parse, and a file that is JSON but not named .json
BuildFiles ==
    {JsonFile(<<"c">>, K(<<"a">>, <<"H">>)),
     JsonFile(<<"d">>, K(<<"a">>, <<"G">>) @@ K(<<"b">>, <<"J">>)),
     BadJsonFile(<<"m">>),
     OtherFile(<<"n", ".", "t">>, K(<<"a">>, <<"X">>))}

\* the listings of a locale directory: up to MaxFiles different files in any order
Listings ==
    {fs \in UNION {[1..n -> BuildFiles] : n \in 0..MaxFiles} :
        \A i \in DOMAIN fs : \A j \in DOMAIN fs : i # j => fs[i] # fs[j]}

\* locale e, then possibly a plain file, then possibly locale f
BuildTrees ==
    {Dir(<<LocaleFolder(<<"e">>, fe)>> \o plain \o second) :
        fe \in Listings,
        plain \in {<<>>, <<PlainEntry(<<"r">> \o DotJson)>>},
        second \in {<<>>} \cup {<<LocaleFolder(<<"f">>, ff)>> : ff \in Listings}}

InitBuild ==
    \E tree \in BuildTrees :
        Activated(<<"A">>,
                  [r \in Roots |-> IF r = "A" THEN Descriptor(<<"l">>, <<"e">>) ELSE NoFile],
                  [p \in LocalePaths |-> IF p = LocalePath("A") THEN tree ELSE NoDir],
                  [e \in Editors |-> Call(<<"a">>)],
                  [e \in Editors |-> <<0, 0>>])

\* the tree is replaced and the watcher reports it, in any order and number
NextBuild ==
    \/ \E tree \in {TreeOne, TreeTwo} : WriteLocaleTree(LocalePath("A"), tree)
    \/ LocaleWatchEvent(Session, "change", <<"c">> \o DotJson)

SpecBuild == InitBuild /\ [][NextBuild]_vars

\* ------------------------- SpecConfig: one folder, its descriptor rewritten
\* what the descriptor of folder A is rewritten to: content that does not
\* parse, the two forms of the README, a locale_path that names no directory
\* and an object without locale_path
ConfigDescriptors ==
    {Malformed,
     Descriptor(<<"l">>, <<"f">>),
     Descriptor(<<".", "/", "l">>, Undefined),
     Descriptor(<<"m">>, <<"e">>),
     Descriptor(Undefined, <<"e">>)}

InitConfig ==
    Activated(<<"A">>,
              [r \in Roots |-> IF r = "A" THEN Descriptor(<<"l">>, <<"f">>) ELSE NoFile],
              [p \in LocalePaths |-> IF p = LocalePath("A") THEN TreeOne ELSE NoDir],
              [e \in Editors |-> Call(<<"a">>) \o Call(<<"z">>)],
              [e \in Editors |-> <<8, 9>>])

NextConfig ==
    \/ \E d \in ConfigDescriptors : WriteDescriptor("A", d)
    \/ \E fn \in ConfigFileNames : ConfigWatchEvent(Session, "change", fn)
    \/ \E tree \in {TreeOne, TreeTwo} : WriteLocaleTree(LocalePath("A"), tree)
    \/ LocaleWatchEvent(Session, "change", <<"c">> \o DotJson)
    \/ \E e \in {"e1", "e2"} : FocusEditor(e)

SpecConfig == InitConfig /\ [][NextConfig]_vars

\* --------------------- SpecThrottle: one folder, selection events in time
\* Folder A is open with the README's tree.  The selection of the two file
\* editors moves between the caret at the start and the first key, their text
\* is edited, the watchers report changes, and between the events time passes
\* by one of the delays below or until the timer of the throttle fires
Delays == {50, Wait - 1}

ThrottleTexts == {Call(<<"a">>) \o Call(<<"z">>), Call(<<"a">>)}
ThrottleSelections == {<<0, 0>>, <<8, 9>>}

InitThrottle ==
    Activated(<<"A">>,
              [r \in Roots |-> IF r = "A" THEN Descriptor(<<"l">>, <<"f">>) ELSE NoFile],
              [p \in LocalePaths |-> IF p = LocalePath("A") THEN TreeOne ELSE NoDir],
              [e \in Editors |-> Call(<<"a">>) \o Call(<<"z">>)],
              [e \in Editors |-> <<0, 0>>])

NextThrottle ==
    \/ \E e \in {"e1", "e2"} : FocusEditor(e)
    \/ \E e \in {"e1", "e2"} : \E sel \in ThrottleSelections : ChangeSelection(e, sel)
    \/ \E t \in ThrottleTexts : ChangeText("e1", t)
    \/ \E d \in Delays : Tick(d)
    \/ ThrottleTimer(Session)
    \/ LocaleWatchEvent(Session, "change", <<"c">> \o DotJson)
    \/ ConfigWatchEvent(Session, "change", <<".", "i">> \o DotJson)

SpecThrottle == InitThrottle /\ [][NextThrottle]_vars

\* the timer of the throttle of closure c runs and is the next one due: the
\* enabling condition of ThrottleTimer(c), whose step always changes the timer
TimerRuns(c) ==
    /\ throttle[c].timerId # NoTimer
    /\ NoneDueBefore(throttle[c].timerId)

\* the event loop runs a timer that is due (setTimeout of the throttle): weak
\* fairness of ThrottleTimer(Session), WF_vars(ThrottleTimer(Session)), written
\* with the enabling condition of the action
SpecThrottleFair ==
    /\ SpecThrottle
    /\ ([]<>~TimerRuns(Session) \/ []<><<ThrottleTimer(Session)>>_vars)

\* ------------------ SpecLate: a folder that is open without a descriptor
\* Folder A is open when the extension is activated and has no descriptor;
\* folder B has one and is added and removed.  The descriptor of A is written
\* afterwards and the file system reports it
LateDescriptors == {NoFile, Malformed, Descriptor(<<"l">>, <<"f">>), Descriptor(<<"m">>, <<"e">>)}

InitLate ==
    Activated(<<"A">>,
              [r \in Roots |-> IF r = "A" THEN NoFile ELSE Descriptor(<<"l">>, <<"e">>)],
              AllTreeOne,
              [e \in Editors |-> Call(<<"a">>) \o Call(<<"z">>)],
              [e \in Editors |-> <<8, 9>>])

NextLate ==
    \/ \E d \in LateDescriptors : WriteDescriptor("A", d)
    \/ \E et \in EventTypes : ReportDescriptor("A", et)
    \/ \E r \in Roots : AddFolder(r)
    \/ \E r \in Roots : RemoveFolder(r)
    \/ \E e \in Editors : FocusEditor(e)

SpecLate == InitLate /\ [][NextLate]_vars

\* ------------------------------- SpecScan: one folder, the texts scanned
\* The text of e1 is any sequence of up to MaxPieces of the pieces below: the
\* start of a call, a quote, a closing parenthesis, a letter and a line
\* break.  Afterwards e1 is focused and edited to one of three longer texts
Pieces == {TrPrefix, <<"\"">>, <<")">>, <<"a">>, <<"\n">>}

RECURSIVE Flatten(_)
Flatten(ps) == IF ps = <<>> THEN <<>> ELSE Head(ps) \o Flatten(Tail(ps))

ScanTexts == {Flatten(ps) : ps \in UNION {[1..n -> Pieces] : n \in 0..MaxPieces}}

\* a call with two string literals, a call with an empty literal before a
\* call with key a, two calls on two lines, and the start of a call inside
\* the key of another
EditedTexts ==
    {TrPrefix \o <<"a", "\"", " ", "+", " ", "\"", "b", "\"", ")">>,
     TrPrefix \o <<"\"", ")">> \o Call(<<"a">>),
     Call(<<"z">>) \o <<"\n">> \o Call(<<"a">>),
     TrPrefix \o Call(<<"a">>) \o <<"x">> \o Call(<<"z">>)}

InitScan ==
    \E t \in ScanTexts :
        Activated(<<"A">>,
                  [r \in Roots |-> IF r = "A" THEN Descriptor(<<"l">>, <<"f">>) ELSE NoFile],
                  [p \in LocalePaths |-> IF p = LocalePath("A") THEN TreeOne ELSE NoDir],
                  [e \in Editors |-> IF e = "e1" THEN t ELSE <<"x">>],
                  [e \in Editors |-> <<0, 0>>])

NextScan ==
    \/ FocusEditor("e1")
    \/ \E t \in EditedTexts : ChangeText("e1", t)

SpecScan == InitScan /\ [][NextScan]_vars

\* ------------------------ SpecEdit: one folder, two documents of it edited
\* Folder A is open when the extension is activated, with the README's tree.
\* Its two visible documents are focused and edited in any order, and the
\* selection of each moves
EditTexts == {Call(<<"a">>) \o Call(<<"z">>), Call(<<"z">>), <<"x">>}
EditSelections == {<<0, 0>>, <<1, 1>>}

InitEdit ==
    Activated(<<"A">>,
              [r \in Roots |-> IF r = "A" THEN Descriptor(<<"l">>, <<"f">>) ELSE NoFile],
              [p \in LocalePaths |-> IF p = LocalePath("A") THEN TreeOne ELSE NoDir],
              [e \in Editors |-> Call(<<"a">>)],
              [e \in Editors |-> <<0, 0>>])

NextEdit ==
    \/ \E e \in {"e1", "e4"} : FocusEditor(e)
    \/ \E e \in {"e1", "e4"} : \E t \in EditTexts : ChangeText(e, t)
    \/ \E e \in {"e1", "e4"} : \E sel \in EditSelections : ChangeSelection(e, sel)
    \/ ThrottleTimer(Session)

SpecEdit == InitEdit /\ [][NextEdit]_vars

\* --------------- SpecWatch: one folder, its locale roots and its watchers
\* Folder A is open when the extension is activated; its descriptor names the
\* locale root l or does not parse.  There are two locale roots on disk, l
\* and m: the descriptor is rewritten to name one or the other, the trees are
\* rewritten, and the two watchers report changes and renames
WatchDescriptors == {Descriptor(<<"l">>, <<"f">>), Descriptor(<<"m">>, <<"f">>)}

InitWatch ==
    \E d \in {Descriptor(<<"l">>, <<"f">>), Malformed} :
        Activated(<<"A">>,
                  [r \in Roots |-> IF r = "A" THEN d ELSE NoFile],
                  [p \in LocalePaths |->
                      IF p = LocalePath("A") THEN TreeOne
                      ELSE IF p = OtherLocalePath THEN TreeTwo ELSE NoDir],
                  [e \in Editors |-> Call(<<"a">>) \o Call(<<"z">>)],
                  [e \in Editors |-> <<0, 0>>])

NextWatch ==
    \/ \E d \in WatchDescriptors : WriteDescriptor("A", d)
    \/ ConfigWatchEvent(Session, "change", <<".", "i">> \o DotJson)
    \/ \E p \in {LocalePath("A"), OtherLocalePath} : \E tree \in {TreeOne, TreeTwo} :
           WriteLocaleTree(p, tree)
    \/ \E et \in EventTypes : LocaleWatchEvent(Session, et, <<"c">> \o DotJson)
    \/ FocusEditor("e1")

SpecWatch == InitWatch /\ [][NextWatch]_vars

\* ------------------------------------------------------------ observations
\* the closures created so far, and those whose folder was removed since
Created(c) == c[2] =< gen[c[1]]
TornDown(c) == Created(c) /\ workspaceStates[c[1]] # c[2]
IsLive(c) == Created(c) /\ workspaceStates[c[1]] = c[2]

\* what the handlers of an editor event would set decorations for, in the
\* current state
PlannedBy(kind, e) == Dispatch(Machine, kind, e, 1).planned

\* editor e shows a decoration of closure c
Shows(c, e) == rendered[c].hover[e] # <<>> \/ rendered[c].inline[e] # <<>>

\* ------------------------------------------------------------------ claims
\* C1: after a folder with a session is removed from the open set, both
\* decoration sets of that session are empty in every editor, and no focus,
\* text or selection event about a document of that folder sets decorations
\* for it
C1_RemovedFolderIsCleared ==
    \A r \in Roots : \A c \in Closures :
        (c[1] = r /\ r \notin folders /\ TornDown(c)) =>
            /\ rendered[c].hover = NoDecorations
            /\ rendered[c].inline = NoDecorations
            /\ \A e \in Editors : \A kind \in {"focus", "text", "selection"} :
                   LocatedUnder(e, r) =>
                       \A p \in PlannedBy(kind, e) : p[1] # r

\* C2: the active editor of every session shows a document located under
\* the session's folder, and an editor shows decorations of a session only
\* when its document is located under the folder of that session
C2_OnlyDocumentsOfTheFolder ==
    \A c \in Closures :
        /\ (IsLive(c) /\ objs[c].activeEditor # NoEditor) =>
               LocatedUnder(objs[c].activeEditor, c[1])
        /\ \A e \in Editors : Shows(c, e) => LocatedUnder(e, c[1])

\* what a session is made of: the fields of its state object and what the
\* editors show for it
SessionOf(r) ==
    IF workspaceStates[r] = 0 THEN <<>>
    ELSE <<objs[<<r, workspaceStates[r]>>], rendered[<<r, workspaceStates[r]>>]>>

\* a step is an event attributed to folder a: its removal, a notification of
\* one of its watchers, or an editor event of a document located under it
EventOf(a) ==
    \/ RemoveFolder(a)
    \/ \E g \in 1..MaxGen : \E et \in EventTypes :
           \/ \E fn \in LocaleFileNames : LocaleWatchEvent(<<a, g>>, et, fn)
           \/ \E fn \in ConfigFileNames : ConfigWatchEvent(<<a, g>>, et, fn)
    \/ \E e \in Editors :
           /\ LocatedUnder(e, a)
           /\ \/ FocusEditor(e)
              \/ ChangeText(e, text'[e])
              \/ ChangeSelection(e, selection'[e])

\* C3: with two sessions, an event attributed to folder a leaves the session
\* of every other folder b as it is
C3_EventsOfOneFolderLeaveTheOthers ==
    [][\A a \in Roots : \A b \in Roots \ {a} :
          (workspaceStates[a] # 0 /\ workspaceStates[b] # 0 /\ EventOf(a)) =>
              SessionOf(b)' = SessionOf(b)]_vars


\* ------------------------------------------------------- claims on the plan
\* the decorations of editor e for closure c are those of a recomputation on
\* the current text, selection and index: e is the active editor of the live
\* session, the last event went through its handlers and no throttled call
\* is waiting
Fresh(c, e) ==
    /\ IsLive(c)
    /\ objs[c].activeEditor = e
    /\ ~throttle[c].lastArgs
    /\ last \in {"focus", "text", "selection", "timer"}

PreferredSet(c) == objs[c].displayLanguage \notin {<<>>, Undefined}

\* the references of the text of e and their ranges
Refs(e) == Scan(text[e])
RangeOf(e, n) == MatchRange(text[e], Refs(e)[n])
Selected(e, n) == Intersects(SelectionRange(text[e], selection[e]), RangeOf(e, n))

HoverAt(c, e, R) ==
    {rendered[c].hover[e][i] : i \in {j \in 1..Len(rendered[c].hover[e]) :
                                          rendered[c].hover[e][j].range = R}}
InlineAt(c, e, R) ==
    {rendered[c].inline[e][i] : i \in {j \in 1..Len(rendered[c].inline[e]) :
                                           rendered[c].inline[e][j].range = R}}

\* the text of locale lang for key in index idx when there is a non-empty
\* one, the raw key otherwise
Shown(idx, lang, key) ==
    IF \E i \in 1..Len(idx) : /\ idx[i].lang = lang
                              /\ key \in DOMAIN idx[i].entries
                              /\ idx[i].entries[key] # <<>>
    THEN LET i == CHOOSE i \in 1..Len(idx) : idx[i].lang = lang
         IN  idx[i].entries[key]
    ELSE key

\* p lists every locale of idx, in order, as "locale: text"
ListsEveryLocale(p, idx, key) ==
    /\ Len(p.hoverMessage) = Len(idx)
    /\ \A i \in 1..Len(idx) :
           p.hoverMessage[i] = idx[i].lang \o <<":", " ">> \o Shown(idx, idx[i].lang, key)

\* C4 as stated: with the preferred locale set, a reference off the
\* selection gets an inline payload whose text is the preferred locale's
\* translation of the key and no hover payload; a reference on the selection
\* gets a hover payload with a line for every locale and no inline payload
C4_Original ==
    \A e \in Editors : (Fresh(Session, e) /\ PreferredSet(Session)) =>
        \A n \in 1..Len(Refs(e)) :
            LET idx == objs[Session].translations
                dl  == objs[Session].displayLanguage
                key == Refs(e)[n].key
                R   == RangeOf(e, n)
            IN  IF ~Selected(e, n)
                THEN /\ HoverAt(Session, e, R) = {}
                     /\ HasLang(idx, dl)
                     /\ key \in DOMAIN EntriesOf(idx, dl)
                     /\ \E p \in InlineAt(Session, e, R) :
                            p.contentText = EntriesOf(idx, dl)[key]
                ELSE /\ InlineAt(Session, e, R) = {}
                     /\ \E p \in HoverAt(Session, e, R) : ListsEveryLocale(p, idx, key)

\* C4 (amended): the text of the inline payload is the preferred locale's
\* translation of the key when the index has a non-empty one, and the raw
\* key otherwise
C4_PayloadOfEachReference ==
    \A e \in Editors : (Fresh(Session, e) /\ PreferredSet(Session)) =>
        \A n \in 1..Len(Refs(e)) :
            LET idx == objs[Session].translations
                dl  == objs[Session].displayLanguage
                key == Refs(e)[n].key
                R   == RangeOf(e, n)
            IN  IF ~Selected(e, n)
                THEN /\ HoverAt(Session, e, R) = {}
                     /\ \E p \in InlineAt(Session, e, R) :
                            p.contentText = Shown(idx, dl, key)
                ELSE /\ InlineAt(Session, e, R) = {}
                     /\ \E p \in HoverAt(Session, e, R) : ListsEveryLocale(p, idx, key)

\* a recomputation of e1 with a translated key off the selection and a key of
\* two locales on it
C4_Witness ==
    /\ Fresh(Session, "e1") /\ PreferredSet(Session)
    /\ \E n \in 1..Len(Refs("e1")) :
           /\ ~Selected("e1", n)
           /\ \E p \in InlineAt(Session, "e1", RangeOf("e1", n)) :
                  p.contentText # Refs("e1")[n].key
    /\ \E n \in 1..Len(Refs("e1")) :
           /\ Selected("e1", n)
           /\ \E p \in HoverAt(Session, "e1", RangeOf("e1", n)) :
                  Len(p.hoverMessage) = 2

C6_NoInlineWithoutPreferredLocale ==
    \A e \in Editors : (Fresh(Session, e) /\ ~PreferredSet(Session)) =>
        /\ rendered[Session].inline[e] = <<>>
        /\ \A n \in 1..Len(Refs(e)) :
               Selected(e, n) => HoverAt(Session, e, RangeOf(e, n)) # {}

InNoLocale(idx, key) == \A i \in 1..Len(idx) : key \notin DOMAIN idx[i].entries

\* C7: a reference whose key is in no locale has the raw key as the text of
\* every locale line of its hover payload and as the text of its inline
\* payload; it has a payload, no text is blank and no handler threw
C7_AbsentKeyShowsRawKey ==
    \A e \in Editors : Fresh(Session, e) =>
        /\ ~uncaught
        /\ \A n \in 1..Len(Refs(e)) :
               LET idx == objs[Session].translations
                   key == Refs(e)[n].key
                   R   == RangeOf(e, n)
               IN  InNoLocale(idx, key) =>
                       /\ key # <<>>
                       /\ HoverAt(Session, e, R) \cup InlineAt(Session, e, R) # {}
                       /\ \A p \in InlineAt(Session, e, R) : p.contentText = key
                       /\ \A p \in HoverAt(Session, e, R) :
                              /\ Len(p.hoverMessage) = Len(idx)
                              /\ \A i \in 1..Len(idx) :
                                     p.hoverMessage[i] = idx[i].lang \o <<":", " ">> \o key

\* a key of no locale is shown in a hover payload with a line per locale, and
\* another one in an inline payload
C7_Witness ==
    /\ Fresh(Session, "e1")
    /\ objs[Session].translations # <<>>
    /\ \E n \in 1..Len(Refs("e1")) :
           /\ InNoLocale(objs[Session].translations, Refs("e1")[n].key)
           /\ \E p \in HoverAt(Session, "e1", RangeOf("e1", n)) : p.hoverMessage # <<>>
    /\ \E n \in 1..Len(Refs("e1")) :
           /\ InNoLocale(objs[Session].translations, Refs("e1")[n].key)
           /\ InlineAt(Session, "e1", RangeOf("e1", n)) # {}


\* ------------------------------------------------------ claims on the index
\* the locale tree of folder A on disk and the index of its session
TreeOfA == localeDir[LocalePath("A")]
IndexOfA == objs[Session].translations

\* the index was built from the tree on disk: the last event was the
\* activation or a change notification of the locale watcher
IndexIsBuilt == IsLive(Session) /\ last \in {"activate", "locale"}

\* the positions of the immediate subdirectories in the locale root, and of
\* the .json documents in a listing
SubDirs(tree) == {j \in 1..Len(tree.entries) : tree.entries[j].kind = "dir"}
Documents(files) == {k \in 1..Len(files) : EndsWith(files[k].name, DotJson)}

WellFormedTree(tree) ==
    /\ tree.exists
    /\ \A j \in 1..Len(tree.entries) : tree.entries[j].kind \in {"dir", "file"}
    /\ \A j \in SubDirs(tree) : \A k \in Documents(tree.entries[j].files) :
           tree.entries[j].files[k].kind = "file" /\ tree.entries[j].files[k].ok

\* the mapping of the index for locale lang
MappingOf(idx, lang) ==
    idx[CHOOSE i \in 1..Len(idx) : idx[i].lang = lang].entries

\* C8: for a well-formed tree the locales of the index are exactly the
\* immediate subdirectories of the locale root, and the mapping of each is
\* the union of the keys of its .json documents, a key having the value of
\* the last listed document that has it
C8_IndexOfWellFormedTree ==
    (IndexIsBuilt /\ WellFormedTree(TreeOfA)) =>
        /\ Len(IndexOfA) = Cardinality(SubDirs(TreeOfA))
        /\ {IndexOfA[i].lang : i \in 1..Len(IndexOfA)}
               = {TreeOfA.entries[j].name : j \in SubDirs(TreeOfA)}
        /\ \A j \in SubDirs(TreeOfA) :
               LET files   == TreeOfA.entries[j].files
                   mapping == MappingOf(IndexOfA, TreeOfA.entries[j].name)
                   Has(key) == {k \in Documents(files) : key \in DOMAIN files[k].data}
               IN  /\ DOMAIN mapping
                          = UNION {DOMAIN files[k].data : k \in Documents(files)}
                   /\ \A key \in DOMAIN mapping :
                          \E k \in Has(key) :
                              /\ \A k2 \in Has(key) : k2 =< k
                              /\ mapping[key] = files[k].data[key]

\* two documents of one locale share a key with different texts, the root
\* holds a plain file and a file of a locale is not a .json document
C8_Witness ==
    /\ IndexIsBuilt /\ last = "locale" /\ WellFormedTree(TreeOfA)
    /\ \E j \in 1..Len(TreeOfA.entries) : TreeOfA.entries[j].kind = "file"
    /\ \E j \in SubDirs(TreeOfA) :
           LET files == TreeOfA.entries[j].files
           IN  /\ Len(files) = 2
               /\ Documents(files) = {1, 2}
               /\ <<"a">> \in DOMAIN files[1].data
               /\ <<"a">> \in DOMAIN files[2].data
               /\ files[1].data[<<"a">>] # files[2].data[<<"a">>]
               /\ MappingOf(IndexOfA, TreeOfA.entries[j].name)[<<"a">>]
                      = files[2].data[<<"a">>]
    /\ \E j \in SubDirs(TreeOfA) :
           \E k \in 1..Len(TreeOfA.entries[j].files) :
               k \notin Documents(TreeOfA.entries[j].files)

\* a document of the tree does not parse
HasMalformed(tree) ==
    \E j \in SubDirs(tree) : \E k \in Documents(tree.entries[j].files) :
        ~tree.entries[j].files[k].ok

\* the decorations of the active editor agree with the index: every
\* reference off the selection shows the text the index gives
Replanned ==
    LET e == objs[Session].activeEditor
    IN  /\ e # NoEditor
        /\ \A n \in 1..Len(Refs(e)) :
               ~Selected(e, n) =>
                   \E p \in InlineAt(Session, e, RangeOf(e, n)) :
                       p.contentText
                           = Shown(IndexOfA, objs[Session].displayLanguage, Refs(e)[n].key)

\* C9: a document that does not parse is skipped alone: every subdirectory is
\* a locale of the index, every key of every well-formed document is in the
\* mapping of its locale, the decorations are planned from the new index and
\* no exception leaves the handler
C9_MalformedDocumentIsSkipped ==
    (IndexIsBuilt /\ TreeOfA.exists /\ HasMalformed(TreeOfA)) =>
        /\ ~uncaught
        /\ {IndexOfA[i].lang : i \in 1..Len(IndexOfA)}
               = {TreeOfA.entries[j].name : j \in SubDirs(TreeOfA)}
        /\ \A j \in SubDirs(TreeOfA) :
               \A k \in Documents(TreeOfA.entries[j].files) :
                   LET doc == TreeOfA.entries[j].files[k]
                   IN  doc.ok => DOMAIN doc.data
                                    \subseteq DOMAIN MappingOf(IndexOfA, TreeOfA.entries[j].name)
        /\ Replanned

\* the watcher reported a tree whose first locale has a document that does
\* not parse before a well-formed one, and a second locale after it
C9_Witness ==
    /\ IndexIsBuilt /\ last = "locale"
    /\ TreeOfA = TreeTwo
    /\ Len(IndexOfA) = 2
    /\ MappingOf(IndexOfA, <<"e">>)[<<"a">>] = <<"G">>
    /\ Replanned
    /\ \E e \in Editors :
           \E n \in 1..Len(rendered[Session].inline[e]) :
               rendered[Session].inline[e][n].contentText = <<"G">>


\* ------------------------------------------------- claims on the descriptor
\* the descriptor does not parse or has no locale_path
Unusable(config) == config.exists /\ (~config.ok \/ config.locale_path = Undefined)

\* C10: when the descriptor is read again and does not parse, or has no
\* locale_path, the state object (locale root, preferred locale, index) and
\* the decorations of every editor stay what they were and no exception
\* leaves the handler
C10_UnusableDescriptorChangesNothing ==
    [][\A fn \in ConfigFileNames \ {Undefined} :
          (Unusable(descriptor["A"]) /\ ConfigWatchEvent(Session, "change", fn)) =>
              /\ objs' = objs
              /\ rendered' = rendered
              /\ workspaceStates' = workspaceStates
              /\ ~uncaught']_vars

\* the watcher reported an unusable descriptor to a session that has a locale
\* root, a preferred locale, an index and decorations
C10_Witness ==
    /\ last = "config" /\ ~uncaught
    /\ Unusable(descriptor["A"])
    /\ IsLive(Session)
    /\ objs[Session].localePath = LocalePath("A")
    /\ objs[Session].displayLanguage = <<"f">>
    /\ objs[Session].translations # <<>>
    /\ \E e \in Editors : Shows(Session, e)

\* --------------------------------------------------- claims on the throttle
\* a step in which a selection event of the active editor of closure c made
\* the throttled function invoke updateDecorationsForWorkspace at once: after
\* a call that does not invoke, the call waits (lastArgs)
SelectionRecomputes(c) ==
    \E e \in Editors :
        /\ ChangeSelection(e, selection'[e])
        /\ \E n \in 1..Len(subs) : subs[n] = c
        /\ objs[c].activeEditor = e
        /\ ~throttle'[c].lastArgs

\* a step in which the timer of closure c fired and invoked for a waiting call
TimerRecomputes(c) ==
    /\ ThrottleTimer(c)
    /\ throttle[c].lastArgs
    /\ ~throttle'[c].lastArgs

\* after the step, the decorations of the active editor of closure c are the
\* two arrays computed from the text, the selection, the index and the
\* display language the step leaves
RecomputedInStep(c) ==
    /\ objs'[c].activeEditor # NoEditor
    /\ rendered'[c].hover[objs'[c].activeEditor]
           = DecorationsArray(text'[objs'[c].activeEditor],
                              selection'[objs'[c].activeEditor],
                              objs'[c].translations)
    /\ rendered'[c].inline[objs'[c].activeEditor]
           = InplaceAnnotations(text'[objs'[c].activeEditor],
                                selection'[objs'[c].activeEditor],
                                objs'[c].translations, objs'[c].displayLanguage)

\* a step that is a text change of the active editor of closure c, or a
\* change notification of one of its two watchers
ImmediateTrigger(c) ==
    \/ \E e \in Editors : ChangeText(e, text'[e]) /\ objs[c].activeEditor = e
    \/ LocaleWatchEvent(c, "change", <<"c">> \o DotJson)
    \/ ConfigWatchEvent(c, "change", <<".", "i">> \o DotJson)

\* C11: two recomputations triggered by selection events of a session are at
\* least 100 ms apart, whatever the arrival times of the events; and a text
\* change or a change notification of a watcher recomputes in the same step,
\* whatever the state of the throttle, which it leaves as it is
C11_SelectionRecomputationsAreSpaced ==
    [][/\ SelectionRecomputes(Session) => throttle[Session].sinceInvoke >= Wait
       /\ TimerRecomputes(Session) =>
              throttle[Session].sinceInvoke + throttle[Session].timerId >= Wait
       /\ ImmediateTrigger(Session) =>
              /\ RecomputedInStep(Session)
              /\ throttle'[Session] = throttle[Session]]_vars

\* ------------------------------------------------ claims on the life cycle
\* the descriptor parses and names a locale root that is on disk
Usable(r) ==
    /\ descriptor[r].exists /\ descriptor[r].ok
    /\ descriptor[r].locale_path # Undefined
    /\ DirAt(Machine, pathJoin(RootPath(r), descriptor[r].locale_path)).exists

\* folder r is Active: it has a session whose locale root and index are
\* those of the descriptor and of the tree on disk, both watchers run and a
\* visible document of the folder shows its decorations
Active(r) ==
    /\ workspaceStates[r] # 0
    /\ LET c    == <<r, workspaceStates[r]>>
           root == pathJoin(RootPath(r), descriptor[r].locale_path)
       IN  /\ objs[c].localePath = root
           /\ objs[c].translations = Build(DirAt(Machine, root)).translations
           /\ localeWatch[c] = root
           /\ c \in configWatch
           /\ \E e \in Editors : LocatedUnder(e, r) /\ Shows(c, e)

\* C12: folder A is in the open set and had no descriptor; once a usable
\* descriptor is on disk and the file system has reported it, the folder is
\* Active
C12_DescriptorAddedLaterActivates ==
    ("A" \in folders /\ Usable("A") /\ last = "reported") => Active("A")

\* what a change notification of a watcher of closure c would do in the
\* current state
ByLocaleNotification(c, fn) == OnLocaleChange(Machine, c, "change", fn)
ByConfigNotification(c, fn) == OnConfigChange(Machine, c, "change", fn)

\* a handler result that rebuilt no index, planned no decorations and left
\* every state object and the map as they are
TouchesNothing(m) ==
    /\ m.objs = objs
    /\ m.rendered = rendered
    /\ m.workspaceStates = workspaceStates
    /\ m.planned = {}

\* C13: once the folder of a session is removed, the session has no locale
\* watcher and no descriptor watcher any more, and a change notification for
\* a locale document or for the descriptor of that folder rebuilds nothing,
\* plans nothing and leaves every state object as it is
C13_WatchersReleasedOnTeardown ==
    \A c \in Closures : (TornDown(c) /\ c[1] \notin folders) =>
        /\ localeWatch[c] = <<>>
        /\ c \notin configWatch
        /\ \A fn \in LocaleFileNames \ {Undefined} :
               TouchesNothing(ByLocaleNotification(c, fn))
        /\ \A fn \in ConfigFileNames \ {Undefined} :
               TouchesNothing(ByConfigNotification(c, fn))

\* C14: whatever event was delivered last (a focus, text or selection event,
\* a notification of a watcher with or without a file name, a folder added
\* or removed, a timer), no exception left its handler
C14_NoUncaughtError == ~uncaught

\* ------------------------------------------------------- claims on the scan
\* the offset of a position of the text
OffsetAt(t, pos) == CHOOSE o \in 0..Len(t) : positionAt(t, o) = pos

\* a call site of t that starts at index i (1-based) and whose closing quote
\* is at index j: ctx.Tr(" at i, at least one character on one line, and the
\* first quote after it that a closing parenthesis follows
IsCallSite(t, i, j) ==
    /\ i >= 1 /\ i + 7 =< Len(t)
    /\ SubSeq(t, i, i + 7) = TrPrefix
    /\ j >= i + 9 /\ j + 1 =< Len(t)
    /\ t[j] = "\"" /\ t[j + 1] = ")"
    /\ \A k \in (i + 8)..(j - 1) : t[k] # "\n"
    /\ \A k \in (i + 9)..(j - 1) : ~(t[k] = "\"" /\ t[k + 1] = ")")

StartsCallSite(t, i) == \E j \in 1..Len(t) : IsCallSite(t, i, j)

\* the decorated ranges of editor e for closure c, of both sets
RenderedRanges(c, e) ==
    {rendered[c].hover[e][n].range : n \in 1..Len(rendered[c].hover[e])}
        \cup {rendered[c].inline[e][n].range : n \in 1..Len(rendered[c].inline[e])}

UnescapedQuote(key, k) ==
    /\ key[k] = "\""
    /\ (k = 1 \/ key[k - 1] # "\\")

\* C16: no key of a reference holds an unescaped double quote, and so no key
\* goes past a closing quote into the text after it
C16_KeysHoldNoQuote ==
    Fresh(Session, "e1") =>
        \A n \in 1..Len(Refs("e1")) :
            \A k \in 1..Len(Refs("e1")[n].key) : ~UnescapedQuote(Refs("e1")[n].key, k)

\* ------------------------------------------------- claims on the triggers
\* after the step, the decorations that editor e shows for closure c are the
\* two arrays computed from its text and selection and the index of c
ReplannedInStep(c, e) ==
    /\ rendered'[c].hover[e]
           = DecorationsArray(text'[e], selection'[e], objs'[c].translations)
    /\ rendered'[c].inline[e]
           = InplaceAnnotations(text'[e], selection'[e], objs'[c].translations,
                                objs'[c].displayLanguage)

\* C17: while folder A has a session, a text change of any visible document
\* located under A is scanned and planned in the same step, whichever editor
\* the session holds as active and without a focus event before it
C17_EveryTextChangeIsReplanned ==
    [][\A e \in Editors :
          (IsLive(Session) /\ LocatedUnder(e, "A") /\ ChangeText(e, text'[e])) =>
              ReplannedInStep(Session, e)]_vars

\* the index that a build of the tree now at the locale root of closure c gives
BuildOfDisk(c) == Build(DirAt(Machine, objs[c].localePath)).translations

\* C18: while folder A has a session, every notification of its locale
\* watcher about a locale document, a creation (rename) as well as a
\* modification (change), rebuilds the index from the tree on disk and plans
\* the decorations again in the same step
C18_EveryLocaleNotificationRebuilds ==
    [][\A et \in EventTypes :
          (IsLive(Session) /\ LocaleWatchEvent(Session, et, <<"c">> \o DotJson)) =>
              /\ objs'[Session].translations = BuildOfDisk(Session)
              /\ RecomputedInStep(Session)]_vars

\* C19: the locale watcher of the session observes the locale root the
\* session now has, whenever that root is a directory on disk
C19_WatcherFollowsLocaleRoot ==
    (IsLive(Session) /\ objs[Session].localePath # <<>>
        /\ DirAt(Machine, objs[Session].localePath).exists) =>
            localeWatch[Session] = objs[Session].localePath

\* --------------------------------------------- claims on the rendered sets
\* the rendered sets of editor e hold one payload for every reference of its
\* text and nothing else: the hover set those of the references on the
\* selection, each listing every locale, and the inline set those of the
\* others, each with the text of the display language or the raw key
ExactlyThePlan(c, e) ==
    LET idx == objs[c].translations
        dl  == objs[c].displayLanguage
        hov == rendered[c].hover[e]
        inl == rendered[c].inline[e]
    IN  /\ Len(hov) + Len(inl) = Len(Refs(e))
        /\ \A n \in 1..Len(Refs(e)) :
               IF Selected(e, n)
               THEN \E i \in 1..Len(hov) :
                        /\ hov[i].range = RangeOf(e, n)
                        /\ ListsEveryLocale(hov[i], idx, Refs(e)[n].key)
               ELSE \E i \in 1..Len(inl) :
                        /\ inl[i].range = RangeOf(e, n)
                        /\ inl[i].contentText = Shown(idx, dl, Refs(e)[n].key)
        /\ \A i \in 1..Len(hov) : \A j \in 1..Len(hov) :
               hov[i].range = hov[j].range => i = j
        /\ \A i \in 1..Len(inl) : \A j \in 1..Len(inl) :
               inl[i].range = inl[j].range => i = j

\* a step that delivers again to editor e an event that changes none of the
\* inputs: a focus event, a text event with the same text or a selection
\* event with the same selection
RedundantTrigger(e) ==
    \/ FocusEditor(e)
    \/ ChangeText(e, text[e])
    \/ ChangeSelection(e, selection[e])

\* C20: after a recomputation the two rendered sets of the active editor are
\* exactly the payloads planned from the current text, index, display
\* language and selection, nothing of an earlier recomputation being left;
\* and a redundant trigger leaves both sets as they are
C20_RenderedSetsAreReplaced ==
    /\ [](\A e \in Editors : Fresh(Session, e) => ExactlyThePlan(Session, e))
    /\ [][\A e \in Editors :
             (Fresh(Session, e) /\ RedundantTrigger(e)) => rendered' = rendered]_vars

\* a text without any reference was recomputed, and the editor shows nothing
\* of the two references it had when the extension was activated
C20_Witness ==
    /\ Fresh(Session, "e1")
    /\ last = "text"
    /\ text["e1"] = <<"x">>
    /\ rendered[Session].hover["e1"] = <<>>
    /\ rendered[Session].inline["e1"] = <<>>
    /\ Len(Refs("e4")) = 0

\* ------------------------------------------- claims on the last selection
\* the hover set of editor e holds the ranges of the references on the
\* current selection of e, and the inline set the ranges of the others
PartitionBySelection(c, e) ==
    /\ {rendered[c].hover[e][i].range : i \in 1..Len(rendered[c].hover[e])}
           = {RangeOf(e, n) : n \in {k \in 1..Len(Refs(e)) : Selected(e, k)}}
    /\ {rendered[c].inline[e][i].range : i \in 1..Len(rendered[c].inline[e])}
           = {RangeOf(e, n) : n \in {k \in 1..Len(Refs(e)) : ~Selected(e, k)}}

\* a selection event of closure c waits for the trailing edge
SelectionWaits(c) == throttle[c].lastArgs

\* C21: no final selection is lost.  While no selection event waits, the
\* partition of the active editor is the one of its current selection; an
\* event that waits has a timer due within the interval; and every event
\* that waits is followed by the recomputation that takes it up
C21_NoFinalSelectionLost ==
    /\ [](\A e \in Editors :
             (IsLive(Session) /\ objs[Session].activeEditor = e /\ ~SelectionWaits(Session))
                 => PartitionBySelection(Session, e))
    /\ [](SelectionWaits(Session) => throttle[Session].timerId \in 0..Wait)
    /\ (SelectionWaits(Session) ~>
            (~SelectionWaits(Session)
                /\ PartitionBySelection(Session, objs[Session].activeEditor)))

\* the timer has fired and recomputed on its trailing edge, the last call
\* being older, and the first key of the active editor is on the selection
C21_Witness ==
    /\ last = "timer"
    /\ objs[Session].activeEditor = "e1"
    /\ throttle[Session].sinceInvoke = 0
    /\ throttle[Session].sinceCall > 0
    /\ selection["e1"] = <<8, 9>>
    /\ Len(rendered[Session].hover["e1"]) = 1
    /\ PartitionBySelection(Session, "e1")

\* ------------------------------------------- claims on the descriptor read
\* after the step the locale root, the preferred locale and the index of
\* closure c are those of the descriptor on the disk, whose locale root is a
\* directory, and the decorations of the active editor were planned from them
AllOfTheDescriptor(c) ==
    LET config == descriptor[c[1]]
    IN  /\ config.exists /\ config.ok /\ config.locale_path # Undefined
        /\ objs'[c].localePath = pathJoin(RootPath(c[1]), config.locale_path)
        /\ objs'[c].displayLanguage = config.display_language
        /\ objs'[c].localePath \in DOMAIN localeDir
        /\ localeDir[objs'[c].localePath].exists
        /\ objs'[c].translations = Build(localeDir[objs'[c].localePath]).translations
        /\ RecomputedInStep(c)

\* the step leaves the state objects and the decorations as they were
NothingOfTheDescriptor ==
    /\ objs' = objs
    /\ rendered' = rendered

\* C22: a read of the descriptor is all or nothing.  After a change
\* notification of the descriptor either the locale root, the preferred
\* locale and the index are those of the new descriptor and the decorations
\* were planned from them, or all of them are what they were
C22_DescriptorReadIsAllOrNothing ==
    [][\A fn \in ConfigFileNames \ {Undefined} :
          ConfigWatchEvent(Session, "change", fn) =>
              (AllOfTheDescriptor(Session) \/ NothingOfTheDescriptor)]_vars

====
